---- MODULE Spec2Model ----
(***************************************************************************)
(* Model of scanny's Scanner::scan (src/src/lib.rs).                       *)
(*                                                                         *)
(* scan spawns one task per port of 0..=MAX_PORT, each task runs           *)
(* check_port (a TCP connect wrapped in a 1 second timeout) and yields     *)
(* Some(port) or None; scan joins all the handles and pushes the port of   *)
(* every Ok(Some(port)) onto the returned vector.                          *)
(*                                                                         *)
(* Time is discrete: a tick is 1/TicksPerSec of a second.  The network is  *)
(* the environment: a port is listening, closed or silent, and a pending   *)
(* connect may complete at any tick.                                       *)
(***************************************************************************)
EXTENDS Integers, Sequences, FiniteSets, TLC

\* ---------------------------------------------------------------- bounds
\* const MAX_PORT: u16 = 65535, the largest value of the port type; scaled.
MAX_PORT == 1
\* Resolution of the clock.
TicksPerSec == 2

\* Duration::from_secs(1)
TIMEOUT_SECS == 1
TIMEOUT == TIMEOUT_SECS * TicksPerSec
\* Cap of a probe's clock; the timeout keeps every clock at or below TIMEOUT.
MaxElapsed == TIMEOUT + 1

Ports == 0..MAX_PORT
\* What is bound to a port of the target: a listener, nothing (the connect is
\* answered with an error), or nothing that ever answers.
NetKinds == {"listening", "closed", "silent"}

VARIABLES
  net,        \* [Ports -> NetKinds], the target, fixed for the scan
  pc,         \* position of scan: "spawn", "join", "collect", "done", or
              \* "dropped" once its future was dropped unfinished
  range,      \* the iterator 0..=MAX_PORT of the spawn loop
  tasks,      \* Vec of the spawned tasks, in spawn order
  results,    \* the Vec join_all resolved to
  ci,         \* index of the next element of results the collect loop reads
  ports,      \* the Vec<u16> scan builds and returns
  sinceStart, \* ticks since the most recent start of a probe
  opened,     \* the ports of the tasks that yielded Some, in completion order
  prev        \* what an earlier scan of the same target returned, if any

vars == <<net, pc, range, tasks, results, ci, ports, sinceStart, opened, prev>>

\* ------------------------------------------------------- values of the code
Some(p)  == <<"Some", p>>
None     == <<"None">>
JoinOk(v) == <<"Ok", v>>
JoinErr  == <<"Err">>
NotYet   == <<"NotYet">>

\* (variant) the half-open range 0..MAX_PORT, which leaves out the end point.
PortRange_exclusive == [start |-> 0, end |-> MAX_PORT - 1, exhausted |-> FALSE]

\* The range 0..=MAX_PORT and its iteration (RangeInclusive::next): the end
\* point is yielded once and marks the range exhausted, with no increment past
\* the largest value of the type.
PortRange == [start |-> 0, end |-> MAX_PORT, exhausted |-> FALSE]

RangeIsEmpty(r) == r.exhausted \/ r.start > r.end

\* (variant) a bare counter, port += 1, in the width of the port type: past
\* the largest value it wraps to 0 and the range is never exhausted.
RangeAdvance_wrapping(r) ==
  [r EXCEPT !.start = (r.start + 1) % (MAX_PORT + 1)]

RangeAdvance(r) ==
  IF r.start < r.end
  THEN [r EXCEPT !.start = (r.start + 1) % (MAX_PORT + 1)]
  ELSE [r EXCEPT !.exhausted = TRUE]

\* (variant) a timeout that never expires: the connect is awaited bare.
Expired_never(e) == FALSE

\* Has the deadline of a timeout that has been running for e ticks passed?
Expired(e) == e >= TIMEOUT

\* (variant) the connect awaited without looking at the deadline.
TimeoutResult_nodeadline(c, e) ==
  IF c # "Pending" THEN <<"Ok", c>> ELSE <<"Pending">>

\* time::timeout(Duration::from_secs(1), connect).await, e ticks after its
\* start with the connect in state c ("Ok", "Err" or "Pending"): the value of
\* a connect that completed before the duration elapsed, otherwise Elapsed.
TimeoutResult(c, e) ==
  IF Expired(e) THEN <<"Err", "Elapsed">>
  ELSE IF c # "Pending" THEN <<"Ok", c>>
  ELSE <<"Pending">>

\* (variant) Ok(_) => true: a connect error inside the timeout counts as open.
check_port_okany(r) == r[1] = "Ok"

\* The match of check_port: Ok(Ok(_)) => true, _ => false.
check_port(r) == r = <<"Ok", "Ok">>

\* (variant) the two arms of the task body swapped.
TaskBody_swapped(open, port) == IF open THEN None ELSE Some(port)

\* The body of the spawned task.
TaskBody(open, port) == IF open THEN Some(port) ELSE None

\* What a connect to a port of that kind may complete with on its own.
NetEvents(kind) ==
  CASE kind = "listening" -> {"Ok", "Err"}
    [] kind = "closed"    -> {"Err"}
    [] OTHER              -> {}

\* (variant) the stream of an established connection is kept, not dropped.
SockAfter_kept(r) == IF r = <<"Ok", "Ok">> THEN "open" ELSE "closed"

\* The socket of a probe once check_port has matched the timeout's result r:
\* the TcpStream of Ok(Ok(_)) is dropped by the match, an unfinished or failed
\* connect is dropped with the timeout future.
SockAfter(r) == "closed"

NewTask(port) ==
  [port |-> port, st |-> "spawned", ev |-> "Pending", elapsed |-> 0,
   tries |-> 0, sock |-> "none", out |-> NotYet]

\* No earlier scan.
NoPrev == [scanned |-> FALSE, open |-> {}, ret |-> <<>>, opened |-> <<>>]

\* ---------------------------------------------------------------- Init
Init ==
  /\ net \in [Ports -> NetKinds]
  /\ pc = "spawn"
  /\ range = PortRange
  /\ tasks = <<>>
  /\ results = <<>>
  /\ ci = 1
  /\ ports = <<>>
  /\ sinceStart = 0
  /\ opened = <<>>
  /\ prev = NoPrev

\* ------------------------------------------------------------ scan's steps
\* (variant) the handle is awaited inside the loop: a task is spawned only
\* once the tasks before it have resolved.
Spawn_sequential ==
  /\ pc = "spawn"
  /\ ~RangeIsEmpty(range)
  /\ \A i \in 1..Len(tasks) : tasks[i].st = "finished"
  /\ tasks' = Append(tasks, NewTask(range.start))
  /\ range' = RangeAdvance(range)
  /\ UNCHANGED <<net, pc, results, ci, ports, sinceStart, opened, prev>>

\* One iteration of `for port in 0..=MAX_PORT`: tasks.push(tokio::spawn(..)).
Spawn ==
  /\ pc = "spawn"
  /\ ~RangeIsEmpty(range)
  /\ tasks' = Append(tasks, NewTask(range.start))
  /\ range' = RangeAdvance(range)
  /\ UNCHANGED <<net, pc, results, ci, ports, sinceStart, opened, prev>>

\* The range is exhausted: the loop ends and scan awaits join_all(tasks).
LoopExit ==
  /\ pc = "spawn"
  /\ RangeIsEmpty(range)
  /\ pc' = "join"
  /\ UNCHANGED <<net, range, tasks, results, ci, ports, sinceStart, opened, prev>>

\* (variant) resolves as soon as one handle has resolved (a select).
JoinReady_any(ts) == \E i \in 1..Len(ts) : ts[i].st = "finished"

\* join_all resolves once every handle has resolved.
JoinReady(ts) == \A i \in 1..Len(ts) : ts[i].st = "finished"

\* (variant) the outputs are gathered as the tasks complete (an unordered
\* join): those of the tasks that yielded Some come in completion order.
Join_unordered ==
  /\ pc = "join"
  /\ JoinReady(tasks)
  /\ results' = [k \in 1..Len(opened) |-> JoinOk(Some(opened[k]))]
  /\ pc' = "collect"
  /\ UNCHANGED <<net, range, tasks, ci, ports, sinceStart, opened, prev>>

\* results[i] is the output of tasks[i]: join_all keeps the order of the
\* handles.
Join ==
  /\ pc = "join"
  /\ JoinReady(tasks)
  /\ results' = [i \in 1..Len(tasks) |-> tasks[i].out]
  /\ pc' = "collect"
  /\ UNCHANGED <<net, range, tasks, ci, ports, sinceStart, opened, prev>>

\* (variant) ports = vec![port]: the vector is overwritten, not extended.
Pushed_overwrite(ps, result) ==
  IF Len(result) = 2 /\ result[1] = "Ok" /\ result[2][1] = "Some"
  THEN <<result[2][2]>>
  ELSE ps

\* (variant) the port is pushed twice.
Pushed_twice(ps, result) ==
  IF Len(result) = 2 /\ result[1] = "Ok" /\ result[2][1] = "Some"
  THEN Append(Append(ps, result[2][2]), result[2][2])
  ELSE ps

\* (variant) ports.insert(0, port): the port goes to the front.
Pushed_front(ps, result) ==
  IF Len(result) = 2 /\ result[1] = "Ok" /\ result[2][1] = "Some"
  THEN <<result[2][2]>> \o ps
  ELSE ps

\* if let Ok(Some(port)) = result { ports.push(port) }
Pushed(ps, result) ==
  IF Len(result) = 2 /\ result[1] = "Ok" /\ result[2][1] = "Some"
  THEN Append(ps, result[2][2])
  ELSE ps

\* (variant) a result that is not Ok(Some(port)) ends scan with an error.
Collect_abort ==
  /\ pc = "collect"
  /\ ci <= Len(results)
  /\ IF Pushed(<<>>, results[ci]) = <<>>
     THEN pc' = "failed" /\ UNCHANGED <<ports, ci>>
     ELSE pc' = pc /\ ports' = Pushed(ports, results[ci]) /\ ci' = ci + 1
  /\ UNCHANGED <<net, range, tasks, results, sinceStart, opened, prev>>

\* (variant) result.unwrap(): a JoinError ends scan with a panic.
Collect_unwrap ==
  /\ pc = "collect"
  /\ ci <= Len(results)
  /\ IF results[ci] = JoinErr
     THEN pc' = "failed" /\ UNCHANGED <<ports, ci>>
     ELSE pc' = pc /\ ports' = Pushed(ports, results[ci]) /\ ci' = ci + 1
  /\ UNCHANGED <<net, range, tasks, results, sinceStart, opened, prev>>

\* One iteration of `for result in results`.
Collect ==
  /\ pc = "collect"
  /\ ci <= Len(results)
  /\ ports' = Pushed(ports, results[ci])
  /\ ci' = ci + 1
  /\ UNCHANGED <<net, pc, range, tasks, results, sinceStart, opened, prev>>

\* scan returns ports.
Return ==
  /\ pc = "collect"
  /\ ci > Len(results)
  /\ pc' = "done"
  /\ UNCHANGED <<net, range, tasks, results, ci, ports, sinceStart, opened, prev>>

\* ------------------------------------------------------- the spawned tasks
\* First poll of task i: check_port starts the connect and arms the timeout.
Start(i) ==
  /\ i \in 1..Len(tasks)
  /\ tasks[i].st = "spawned"
  /\ tasks' = [tasks EXCEPT ![i].st = "awaiting", ![i].elapsed = 0,
                            ![i].tries = @ + 1, ![i].sock = "connecting"]
  /\ sinceStart' = 0
  /\ UNCHANGED <<net, pc, range, results, ci, ports, opened, prev>>

\* (variant) the vector is shared with the tasks: a task that finds its port
\* open pushes it itself, besides yielding it.
Resolve_shared(i, c) ==
  /\ i \in 1..Len(tasks)
  /\ tasks[i].st = "awaiting"
  /\ c \in NetEvents(net[tasks[i].port]) \cup {"Pending"}
  /\ LET r == TimeoutResult(c, tasks[i].elapsed)
         v == TaskBody(check_port(r), tasks[i].port) IN
       /\ r # <<"Pending">>
       /\ tasks' = [tasks EXCEPT ![i].st = "finished", ![i].ev = c,
                      ![i].sock = SockAfter(r), ![i].out = JoinOk(v)]
       /\ opened' = IF v = None THEN opened ELSE Append(opened, v[2])
       /\ ports' = IF v = None THEN ports ELSE Append(ports, v[2])
  /\ UNCHANGED <<net, pc, range, results, ci, sinceStart, prev>>

\* Task i is polled with the connect in state c: the timeout resolves,
\* check_port classifies its result and the task finishes with Some or None.
Resolve(i, c) ==
  /\ i \in 1..Len(tasks)
  /\ tasks[i].st = "awaiting"
  /\ c \in NetEvents(net[tasks[i].port]) \cup {"Pending"}
  /\ LET r == TimeoutResult(c, tasks[i].elapsed)
         v == TaskBody(check_port(r), tasks[i].port) IN
       /\ r # <<"Pending">>
       /\ tasks' = [tasks EXCEPT ![i].st = "finished", ![i].ev = c,
                      ![i].sock = SockAfter(r), ![i].out = JoinOk(v)]
       /\ opened' = IF v = None THEN opened ELSE Append(opened, v[2])
  /\ UNCHANGED <<net, pc, range, results, ci, ports, sinceStart, prev>>

\* A tick of the clock.  A timer fires at its deadline: time does not pass
\* it while the probe is still awaiting.
Tick ==
  /\ \E i \in 1..Len(tasks) : tasks[i].st = "awaiting"
  /\ \A i \in 1..Len(tasks) : tasks[i].st = "awaiting" =>
        /\ ~Expired(tasks[i].elapsed)
        /\ tasks[i].elapsed < MaxElapsed
  /\ tasks' = [i \in 1..Len(tasks) |->
                 IF tasks[i].st = "awaiting"
                 THEN [tasks[i] EXCEPT !.elapsed = @ + 1]
                 ELSE tasks[i]]
  /\ sinceStart' = sinceStart + 1
  /\ UNCHANGED <<net, pc, range, results, ci, ports, opened, prev>>

\* Task i ends abnormally (it is cancelled by the runtime): its future is
\* dropped, and its connect with it, and its handle resolves to a JoinError.
Abort(i) ==
  /\ i \in 1..Len(tasks)
  /\ tasks[i].st \in {"spawned", "awaiting"}
  /\ tasks' = [tasks EXCEPT ![i].st = "finished", ![i].out = JoinErr,
                  ![i].sock = IF @ = "connecting" THEN "closed" ELSE @]
  /\ UNCHANGED <<net, pc, range, results, ci, ports, sinceStart, opened, prev>>

TaskIds == 1..(MAX_PORT + 1)

Next ==
  \/ Spawn
  \/ LoopExit
  \/ Join
  \/ Collect
  \/ Return
  \/ \E i \in TaskIds : Start(i)
  \/ \E i \in TaskIds : \E c \in {"Ok", "Err", "Pending"} : Resolve(i, c)
  \/ Tick

Spec == Init /\ [][Next]_vars

\* Runs in which tasks may also end abnormally.
NextAbort == Next \/ \E i \in TaskIds : Abort(i)

SpecAbort == Init /\ [][NextAbort]_vars

\* The runtime polls every ready task and runs scan when it can proceed, and
\* timers fire; the network owes nothing: a connect may never complete.
Fairness ==
  /\ WF_vars(Spawn) /\ WF_vars(LoopExit) /\ WF_vars(Join)
  /\ WF_vars(Collect) /\ WF_vars(Return)
  /\ \A i \in TaskIds : WF_vars(Start(i)) /\ WF_vars(Resolve(i, "Pending"))
  /\ WF_vars(Tick)

FairSpec == Spec /\ Fairness

\* (variant) handles that abort their task when dropped: dropping scan
\* cancels every task that has not resolved.
DropScan_abort ==
  /\ pc = "join"
  /\ pc' = "dropped"
  /\ tasks' = [i \in 1..Len(tasks) |->
                 IF tasks[i].st = "finished" THEN tasks[i]
                 ELSE [tasks[i] EXCEPT !.st = "finished", !.out = JoinErr,
                         !.sock = IF @ = "connecting" THEN "closed" ELSE @]]
  /\ UNCHANGED <<net, range, results, ci, ports, sinceStart, opened, prev>>

\* The caller drops the future of scan while it is suspended at its one
\* await, join_all: the JoinHandles are dropped with it, which detaches the
\* tasks, and scan never resumes.
DropScan ==
  /\ pc = "join"
  /\ pc' = "dropped"
  /\ UNCHANGED <<net, range, tasks, results, ci, ports, sinceStart, opened, prev>>

NextDrop == Next \/ DropScan

SpecDrop == Init /\ [][NextDrop]_vars

\* ------------------------------------------------------------ vocabulary
Done == pc = "done"
TaskIdx == 1..Len(tasks)
InPorts(p) == \E k \in 1..Len(ports) : ports[k] = p
Occurrences(p) == Cardinality({k \in 1..Len(ports) : ports[k] = p})
Finished(i) == tasks[i].st = "finished"
\* The connect of task i was established before its timeout expired.
EstablishedInTime(i) ==
  Finished(i) /\ tasks[i].ev = "Ok" /\ tasks[i].elapsed < TIMEOUT
\* The probe of task i resolved without a connection.
ProbeFailed(i) == Finished(i) /\ ~EstablishedInTime(i)
\* The probe of task i was ended by its timeout.
TimedOut(i) ==
  Finished(i) /\ tasks[i].out # JoinErr /\ tasks[i].elapsed >= TIMEOUT
TasksOf(p) == {i \in TaskIdx : tasks[i].port = p}
\* The per-port probe outcomes of the scan: the ports whose probe succeeded.
OpenOutcomes == {tasks[i].port : i \in {j \in TaskIdx : EstablishedInTime(j)}}
PortSet(ps) == {ps[k] : k \in 1..Len(ps)}
Ascending(ps) == \A k1, k2 \in 1..Len(ps) : k1 < k2 => ps[k1] < ps[k2]

\* ------------------------------------------------------------ a second scan
\* The caller, having got the result of one scan, calls scan again on the
\* same target: a new invocation, with nothing kept from the first but what
\* the caller holds.
Rescan ==
  /\ pc = "done"
  /\ ~prev.scanned
  /\ prev' = [scanned |-> TRUE, open |-> OpenOutcomes, ret |-> ports,
              opened |-> opened]
  /\ pc' = "spawn"
  /\ range' = PortRange
  /\ tasks' = <<>>
  /\ results' = <<>>
  /\ ci' = 1
  /\ ports' = <<>>
  /\ sinceStart' = 0
  /\ opened' = <<>>
  /\ UNCHANGED net

NextRescan == Next \/ Rescan

SpecRescan == Init /\ [][NextRescan]_vars

\* The second scan has returned and its probes had the outcomes of the first.
SameOutcomesTwice == Done /\ prev.scanned /\ OpenOutcomes = prev.open

\* ---------------------------------------------------------------- claims

\* C1: when scan has returned, every port whose probe established its
\* connection before its timeout expired is in the returned list.
C1_OpenPortReported ==
  Done => \A i \in TaskIdx : EstablishedInTime(i) => InPorts(tasks[i].port)

\* Two probes succeeded, the later spawned one first, and scan has returned.
C1_Witness ==
  /\ Done
  /\ \E i, j \in TaskIdx : i < j /\ EstablishedInTime(i) /\ EstablishedInTime(j)
       /\ tasks[j].elapsed < tasks[i].elapsed
       /\ InPorts(tasks[i].port) /\ InPorts(tasks[j].port)

\* C2: when scan has returned, every port of the returned list is the port
\* of a probe that established its connection in time; a port whose probe was
\* refused, failed or timed out is not in the list.
C2_OnlyOpenPortsReported ==
  Done => \A p \in Ports :
            InPorts(p) => \E i \in TasksOf(p) : EstablishedInTime(i)

\* scan has returned after one probe timed out and another succeeded; the
\* port of the first is not in the list, the port of the second is.
C2_Witness ==
  /\ Done
  /\ \E j, k \in TaskIdx :
       /\ TimedOut(j) /\ ~InPorts(tasks[j].port)
       /\ EstablishedInTime(k) /\ InPorts(tasks[k].port)

\* C3: no port is ever given two tasks and no task makes a second connection
\* attempt; once the spawn loop has ended every port has exactly one task,
\* and when scan has returned every task has made exactly one attempt and
\* holds exactly one outcome, Some(port) or None.
C3_OneProbePerPort ==
  /\ \A p \in Ports : Cardinality(TasksOf(p)) <= 1
  /\ \A i \in TaskIdx : tasks[i].port \in Ports /\ tasks[i].tries <= 1
  /\ pc # "spawn" => \A p \in Ports : Cardinality(TasksOf(p)) = 1
  /\ Done => /\ Len(results) = MAX_PORT + 1
             /\ \A i \in TaskIdx :
                  /\ tasks[i].tries = 1
                  /\ tasks[i].out \in {JoinOk(Some(tasks[i].port)), JoinOk(None)}
                  /\ results[i] = tasks[i].out

\* scan has returned with both end points probed, one of them after a
\* failure and one after a timeout.
C3_Witness ==
  /\ Done
  /\ \E i, j \in TaskIdx :
       /\ tasks[i].port = 0 /\ tasks[j].port = MAX_PORT
       /\ tasks[i].ev = "Err" /\ TimedOut(j)
       /\ tasks[i].tries = 1 /\ tasks[j].tries = 1

\* C4: scan is past join_all only when a task was spawned for every port and
\* every task has resolved.
C4_JoinBeforeReturn ==
  pc \in {"collect", "done"} =>
    /\ Len(tasks) = MAX_PORT + 1
    /\ \A i \in TaskIdx : Finished(i)

\* scan has returned an open port whose probe resolved at once, after having
\* waited for a later resolving probe that timed out.
C4_Witness ==
  /\ Done
  /\ \E i, j \in TaskIdx :
       /\ EstablishedInTime(i) /\ tasks[i].elapsed = 0 /\ InPorts(tasks[i].port)
       /\ TimedOut(j) /\ tasks[j].elapsed = TIMEOUT

\* C5: the vector scan builds never holds a port twice, and when scan has
\* returned it holds every open port exactly once.
C5_NoDuplicates ==
  /\ \A p \in Ports : Occurrences(p) <= 1
  /\ Done => \A i \in TaskIdx :
               EstablishedInTime(i) => Occurrences(tasks[i].port) = 1

\* scan has returned a list of every port, all of them open.
C5_Witness ==
  /\ Done
  /\ Len(ports) = MAX_PORT + 1
  /\ \A i \in TaskIdx : EstablishedInTime(i)

\* C6: scan never ends with an error; when it has returned after some probe
\* failed, it has read the outcome of every probe, the list holds the port of
\* every probe that succeeded and the port of no probe that failed.
C6_NoProbeFailureIsFatal ==
  /\ pc \in {"spawn", "join", "collect", "done"}
  /\ (Done /\ \E i \in TaskIdx : ProbeFailed(i)) =>
       /\ ci = Len(results) + 1
       /\ \A i \in TaskIdx :
            /\ ProbeFailed(i) => ~InPorts(tasks[i].port)
            /\ EstablishedInTime(i) => InPorts(tasks[i].port)

\* scan has returned; the first probe failed, and a probe spawned after it
\* that resolved after it succeeded and is in the list.
C6_Witness ==
  /\ Done
  /\ \E i, j \in TaskIdx :
       /\ i < j
       /\ tasks[i].ev = "Err" /\ tasks[i].elapsed = 0
       /\ EstablishedInTime(j) /\ tasks[j].elapsed > 0
       /\ InPorts(tasks[j].port)

\* C7: under fair scheduling of scan, of the tasks and of the timers, scan
\* eventually returns, whatever the network does.
C7_ScanTerminates == <>Done

\* scan has returned although no connect ever completed: every probe ended
\* by its timeout.
C7_Witness ==
  /\ Done
  /\ \A p \in Ports : net[p] = "silent"
  /\ \A i \in TaskIdx : TimedOut(i) /\ tasks[i].elapsed = TIMEOUT

C10_EmptyTarget ==
  (Len(tasks) = MAX_PORT + 1 /\ \A i \in TaskIdx : ProbeFailed(i)) =>
    /\ pc \in {"spawn", "join", "collect", "done"}
    /\ Done => ports = <<>>

\* scan has returned the empty list from a target that refuses every
\* connect at once (as a malformed address does).
C10_Witness ==
  /\ Done
  /\ ports = <<>>
  /\ \A p \in Ports : net[p] = "closed"
  /\ \A i \in TaskIdx : tasks[i].ev = "Err" /\ tasks[i].elapsed = 0

\* C11: when two scans of the same target have returned and the probes of
\* the second had the outcomes of the probes of the first, the two returned
\* lists hold the same set of ports.
C11_SameOpenPortSet ==
  SameOutcomesTwice => PortSet(ports) = PortSet(prev.ret)

\* Two scans have returned the same ports, every port being open, and their
\* probes completed in different orders.
C11_Witness ==
  /\ SameOutcomesTwice
  /\ PortSet(ports) = Ports
  /\ opened # prev.opened

\* C12 (as claimed): the result records the outcomes in the order in which
\* the probes complete.
C12_RecordedInCompletionOrder ==
  Done => ports = opened

\* C12 (amended): probes complete in any order, and the order of the result
\* does not depend on it: two scans whose probes had the same outcomes return
\* the same list, in the same order.
C12_SameOrderTwice ==
  SameOutcomesTwice => ports = prev.ret

\* Two scans have returned the same list of two or more ports; in the first
\* the probes completed in list order, in the second they did not.
C12_Witness ==
  /\ SameOutcomesTwice
  /\ Len(ports) >= 2
  /\ prev.opened = prev.ret
  /\ opened # ports
  /\ ports = prev.ret

\* C13: a task that has resolved holds no socket that is open or still
\* connecting, and when scan has returned every task has resolved, so neither
\* a running probe nor a connection of this scan is left.
C13_NothingOutlivesScan ==
  /\ \A i \in TaskIdx :
       Finished(i) => tasks[i].sock \notin {"open", "connecting"}
  /\ Done => \A i \in TaskIdx :
               Finished(i) /\ tasks[i].sock \notin {"open", "connecting"}

\* scan has returned after one connection was established, and closed, and
\* one connect was abandoned at its timeout.
C13_Witness ==
  /\ Done
  /\ \E i, j \in TaskIdx :
       /\ EstablishedInTime(i) /\ tasks[i].sock = "closed"
       /\ TimedOut(j) /\ tasks[j].ev = "Pending" /\ tasks[j].sock = "closed"

\* C14: the spawn loop never waits for a probe (its next iteration can run
\* whatever the tasks spawned so far are doing), scan awaits nothing before
\* the loop has spawned a task for every port, and a spawned task can start
\* whatever the other tasks are doing: nothing caps the probes in flight.
C14_FullFanOut ==
  /\ (pc = "spawn" /\ ~RangeIsEmpty(range)) => ENABLED Spawn
  /\ pc = "spawn" => results = <<>> /\ ports = <<>>
  /\ pc # "spawn" => Len(tasks) = MAX_PORT + 1
  /\ \A i \in TaskIdx : tasks[i].st = "spawned" => ENABLED Start(i)

\* The probes of all the ports are in flight at the same time, and scan is
\* only now about to await them.
C14_Witness ==
  /\ pc = "spawn"
  /\ RangeIsEmpty(range)
  /\ Len(tasks) = MAX_PORT + 1
  /\ \A i \in TaskIdx : tasks[i].st = "awaiting"

\* C15: a step of a task never changes the vector of open ports; the vector
\* changes only in a step of scan's collect loop, which runs after every task
\* has resolved, alone, and which extends it by one port and touches no entry
\* already there.
C15_SingleWriter ==
  [][ /\ tasks' # tasks => ports' = ports
      /\ ports' # ports =>
           /\ pc = "collect" /\ pc' = "collect"
           /\ JoinReady(tasks) /\ Len(tasks) = MAX_PORT + 1
           /\ \E p \in Ports : ports' = Append(ports, p)
    ]_vars

\* scan has returned every port, all the probes having succeeded within one
\* and the same tick.
C15_Witness ==
  /\ Done
  /\ sinceStart = 0
  /\ Len(ports) = MAX_PORT + 1
  /\ \A i \in TaskIdx : EstablishedInTime(i) /\ tasks[i].elapsed = 0

\* C16: the vector scan builds, and so the list it returns, is at every
\* moment in strictly ascending port order, whatever the order in which the
\* probes completed.
C16_AscendingOrder ==
  Ascending(ports)

\* scan has returned two or more ports in ascending order although their
\* probes completed in another order.
C16_Witness ==
  /\ Done
  /\ Len(ports) >= 2
  /\ PortSet(opened) = PortSet(ports)
  /\ ~Ascending(opened)
  /\ Ascending(ports)

\* The handle of task i resolved to a JoinError.
EndedAbnormally(i) == Finished(i) /\ tasks[i].out = JoinErr

\* C17: when some task has ended abnormally, scan still gets past its join
\* only once every task has resolved and does not end with a panic or an
\* error; when it has returned it has read every result, the port of the
\* abnormally ended task is not in the list and the port of every probe that
\* succeeded is.
C17_AbnormalTaskEndIsSkipped ==
  (\E i \in TaskIdx : EndedAbnormally(i)) =>
    /\ pc \in {"spawn", "join", "collect", "done"}
    /\ pc \in {"collect", "done"} => \A i \in TaskIdx : Finished(i)
    /\ Done =>
         /\ ci = Len(results) + 1
         /\ \A i \in TaskIdx :
              /\ EndedAbnormally(i) => ~InPorts(tasks[i].port)
              /\ EstablishedInTime(i) => InPorts(tasks[i].port)

\* scan has returned; the first task ended abnormally while its probe of a
\* listening port was in flight, and a probe spawned after it, which
\* succeeded later, is in the list.
C17_Witness ==
  /\ Done
  /\ \E i, j \in TaskIdx :
       /\ i < j
       /\ EndedAbnormally(i) /\ tasks[i].sock = "closed"
       /\ net[tasks[i].port] = "listening" /\ ~InPorts(tasks[i].port)
       /\ EstablishedInTime(j) /\ tasks[j].elapsed > tasks[i].elapsed
       /\ InPorts(tasks[j].port)

\* C18: once the future of scan has been dropped at its join, no task has
\* been cancelled by it: the drop leaves the tasks as they are, a task not
\* yet started can start, a probe in flight goes on (its timeout can fire,
\* or time can pass, or the timeout of another probe is due first); and scan
\* delivers nothing, then or later.
C18_DroppedScanDetachesTasks ==
  /\ [](pc = "dropped" =>
          /\ ports = <<>> /\ results = <<>>
          /\ \A i \in TaskIdx :
               /\ tasks[i].out # JoinErr
               /\ tasks[i].st = "spawned" => ENABLED Start(i)
               /\ tasks[i].st = "awaiting" =>
                    \/ ENABLED Resolve(i, "Pending")
                    \/ ENABLED Tick
                    \/ \E j \in TaskIdx : ENABLED Resolve(j, "Pending"))
  /\ [][ /\ (pc # "dropped" /\ pc' = "dropped") => tasks' = tasks
         /\ pc = "dropped" => pc' = "dropped" /\ ports' = ports
       ]_vars

\* scan was dropped; one of its probes is still in flight, its clock
\* running, and another has resolved.
C18_Witness ==
  /\ pc = "dropped"
  /\ \E i, j \in TaskIdx :
       /\ tasks[i].st = "awaiting" /\ tasks[i].elapsed > 0
       /\ tasks[i].sock = "connecting"
       /\ Finished(j)

\* C19: the k-th iteration of the spawn loop visits port k - 1, so no port is
\* visited twice; the counter stays within 0..MAX_PORT and never goes back;
\* the loop ends, with the counter at MAX_PORT, after exactly MAX_PORT + 1
\* iterations, the first for port 0 and the last for port MAX_PORT.
C19_SpawnLoopCoversRangeOnce ==
  /\ [](/\ range.start \in Ports
        /\ Len(tasks) <= MAX_PORT + 1
        /\ \A i \in TaskIdx : tasks[i].port = i - 1
        /\ (pc = "spawn" /\ ~range.exhausted) => range.start = Len(tasks)
        /\ (pc # "spawn" \/ range.exhausted) =>
             /\ Len(tasks) = MAX_PORT + 1
             /\ range.start = MAX_PORT /\ range.exhausted)
  /\ [][range'.start >= range.start]_vars
  /\ <>(pc # "spawn")

\* The loop has ended: the range is exhausted at MAX_PORT, the first task is
\* that of port 0 and the last that of port MAX_PORT.
C19_Witness ==
  /\ pc = "join"
  /\ range.exhausted /\ range.start = MAX_PORT
  /\ Len(tasks) = MAX_PORT + 1
  /\ tasks[1].port = 0
  /\ tasks[MAX_PORT + 1].port = MAX_PORT

====
